---- MODULE Spec2Model ----
(***************************************************************************)
(* Stateless DID commitment verifier (solana/did_commitment/src/lib.rs).   *)
(*                                                                         *)
(* A Hash is a 32-byte value.  Here it is a term in prefix notation over   *)
(* the integers: <<n>> (n >= 0) is a raw 32-byte value, and the digest of  *)
(* k concatenated hashes is <<-k>> followed by the k terms.  Prefix        *)
(* notation is uniquely readable, so the digest is collision-free and its  *)
(* result depends on the order and number of the blocks absorbed.          *)
(***************************************************************************)
EXTENDS Integers, Sequences, FiniteSets, TLC

VARIABLES
    pc,            \* position in process_instruction: "entry", "decoded", "exit"
    data,          \* instruction_data: the words handed to process_instruction
    instruction,   \* the decoded VerifyInstruction
    result,        \* the ProgramResult returned
    steps,         \* the checks verify_commitment evaluated, in order
    logs,          \* msg! diagnostics emitted
    mpc,           \* position of the Merkle caller: "start", "ready", "called"
    leaves,        \* the leaves of the caller's tree (<<>>: no tree)
    leaf,          \* compute_merkle_root argument
    proof,         \* compute_merkle_root argument
    index,         \* compute_merkle_root argument
    root           \* compute_merkle_root return value

vars == <<pc, data, instruction, result, steps, logs,
          mpc, leaves, leaf, proof, index, root>>

pipelineVars == <<pc, data, instruction, result, steps, logs>>
merkleVars == <<mpc, leaves, leaf, proof, index, root>>

----------------------------------------------------------------------------
(* Bounds of the explored input space. *)

NAtoms == 2
NKeys == 2
MaxProofLen == 1
MaxIndex == 2
MaxDepth == 2

----------------------------------------------------------------------------
(* Hashing: sha3::Keccak256 used through new / update / finalize. *)

Raw(n) == <<n>>

RECURSIVE Concat(_)
Concat(blocks) ==
    IF blocks = <<>> THEN <<>> ELSE Head(blocks) \o Concat(Tail(blocks))

Keccak256_new == <<>>

Keccak256_update(hasher, block) == Append(hasher, block)

Keccak256_finalize(hasher) == <<0 - Len(hasher)>> \o Concat(hasher)

----------------------------------------------------------------------------
(* CommitmentTuple::recompute_aggregate *)

\* Faulty variant of recompute_aggregate: the whole tuple is hashed, the
\* stored aggregate included.
recompute_aggregate_whole_tuple(self) ==
    LET h0 == Keccak256_new
        h1 == Keccak256_update(h0, self.did_hash)
        h2 == Keccak256_update(h1, self.credential_root)
        h3 == Keccak256_update(h2, self.zk_commitment)
        h4 == Keccak256_update(h3, self.aggregate_commitment)
    IN  Keccak256_finalize(h4)

recompute_aggregate(self) ==
    LET h0 == Keccak256_new
        h1 == Keccak256_update(h0, self.did_hash)
        h2 == Keccak256_update(h1, self.credential_root)
        h3 == Keccak256_update(h2, self.zk_commitment)
    IN  Keccak256_finalize(h3)

----------------------------------------------------------------------------
(* DidCommitmentError and its conversion into ProgramError. *)

DidCommitmentError ==
    <<"AggregateMismatch", "InvalidMerkleProof", "SignatureInvalid",
      "DeserializeFailed">>

\* Faulty variant of Discriminant: DeserializeFailed shares the code of
\* SignatureInvalid.
Discriminant_shared(value) ==
    CASE value = "AggregateMismatch" -> 0
      [] value = "InvalidMerkleProof" -> 1
      [] OTHER -> 2

\* `value as u32`: the discriminant is the variant's position, from 0.
Discriminant(value) ==
    (CHOOSE i \in 1..Len(DidCommitmentError) : DidCommitmentError[i] = value) - 1

ProgramError_from(value) == [tag |-> "Custom", code |-> Discriminant(value)]

Ok == [tag |-> "Ok", code |-> 0 - 1]

NoResult == [tag |-> "None", code |-> 0 - 1]

----------------------------------------------------------------------------
(* compute_merkle_root *)

\* Faulty variant of MerkleNode: the two concatenation orders exchanged.
MerkleNode_swapped(computed, sibling, idx) ==
    IF idx % 2 = 0
    THEN Keccak256_finalize(
             Keccak256_update(Keccak256_update(Keccak256_new, sibling), computed))
    ELSE Keccak256_finalize(
             Keccak256_update(Keccak256_update(Keccak256_new, computed), sibling))

MerkleNode(computed, sibling, idx) ==
    LET hasher == Keccak256_new IN
    IF idx % 2 = 0
    THEN Keccak256_finalize(
             Keccak256_update(Keccak256_update(hasher, computed), sibling))
    ELSE Keccak256_finalize(
             Keccak256_update(Keccak256_update(hasher, sibling), computed))

RECURSIVE MerkleLoop(_, _, _)
MerkleLoop(computed, rest, idx) ==
    IF rest = <<>>
    THEN computed
    ELSE MerkleLoop(MerkleNode(computed, Head(rest), idx), Tail(rest), idx \div 2)

\* Faulty variant of compute_merkle_root: index is never halved.
RECURSIVE MerkleLoop_no_halving(_, _, _)
MerkleLoop_no_halving(computed, rest, idx) ==
    IF rest = <<>>
    THEN computed
    ELSE MerkleLoop_no_halving(MerkleNode(computed, Head(rest), idx),
                               Tail(rest), idx)

compute_merkle_root_no_halving(l, p, i) == MerkleLoop_no_halving(l, p, i)

\* Faulty variant of compute_merkle_root: the leaf is hashed before the fold.
compute_merkle_root_hashed_leaf(l, p, i) ==
    MerkleLoop(Keccak256_finalize(Keccak256_update(Keccak256_new, l)), p, i)

\* Faulty variant of compute_merkle_root: an index outside the tree the
\* proof spans yields the zero hash.
compute_merkle_root_bounded(l, p, i) ==
    IF i >= 2 ^ Len(p) THEN <<0>> ELSE MerkleLoop(l, p, i)

\* lines 113-128.
compute_merkle_root(l, p, i) == MerkleLoop(l, p, i)

----------------------------------------------------------------------------
(* Ed25519 (ed25519_dalek).  Key bytes and signature bytes are records     *)
(* naming what the 32 or 64 bytes encode.                                  *)
(*   key bytes:  enc = "point"     a curve point, the public key of `key`  *)
(*               enc = "weak"      a small-order point (parses)            *)
(*               enc = "offcurve"  no curve point (does not parse)         *)
(*   signature:  enc = "signed"    made by `key` over `msg`                *)
(*               enc = "smallR"    well-formed, R of small order           *)
(*               enc = "highbits"  high bits of s set (does not parse)     *)

Keys == 1..NKeys

KeyBytes(enc, k) == [enc |-> enc, key |-> k]

SigBytes(enc, k, m) == [enc |-> enc, key |-> k, msg |-> m]

VerifyingKey_of(signing_key) == KeyBytes("point", signing_key)

VerifyingKey_from_bytes(bytes) ==
    IF bytes.enc = "offcurve"
    THEN [ok |-> FALSE, key |-> 0, weak |-> FALSE]
    ELSE [ok |-> TRUE, key |-> bytes.key, weak |-> bytes.enc = "weak"]

Signature_from_bytes(bytes) ==
    IF bytes.enc = "highbits"
    THEN [ok |-> FALSE, key |-> 0, msg |-> <<>>, smallR |-> FALSE]
    ELSE [ok |-> TRUE, key |-> bytes.key, msg |-> bytes.msg,
          smallR |-> bytes.enc = "smallR"]

\* The verification equation: an honest signature satisfies it for its own
\* key and message; a small-order key with a small-order R satisfies it
\* whatever the message.
VerifyEquation(verifying_key, message, signature) ==
    \/ /\ ~verifying_key.weak
       /\ ~signature.smallR
       /\ signature.key = verifying_key.key
       /\ signature.msg = message
    \/ /\ verifying_key.weak
       /\ signature.smallR

\* Mutant of verify_strict: the permissive check, which accepts small-order
\* components.
verify_permissive(verifying_key, message, signature) ==
    VerifyEquation(verifying_key, message, signature)

verify_strict(verifying_key, message, signature) ==
    /\ ~verifying_key.weak
    /\ ~signature.smallR
    /\ VerifyEquation(verifying_key, message, signature)

SigningKey_sign(signing_key, message) == SigBytes("signed", signing_key, message)

sign_commitment(commitment, signing_key) ==
    SigningKey_sign(signing_key, commitment.aggregate_commitment)

----------------------------------------------------------------------------
(* verify_commitment: the outcome, the checks evaluated and the messages.  *)

\* Mutant of SignedMessage: the signature is checked over the credential root.
SignedMessage_root(ins) == ins.commitment.credential_root

\* line 109: the message handed to verify_strict.
SignedMessage(ins) == ins.commitment.aggregate_commitment

Outcome(ret, evaluated, messages) ==
    [ret |-> ret, steps |-> evaluated, logs |-> messages]

\* lines 103-110: parse the key, parse the signature, verify strictly; each
\* failure maps to SignatureInvalid.  `done` lists the checks already made.
SignatureChecks(ins, done) ==
    LET verifying_key == VerifyingKey_from_bytes(ins.ed25519_public_key) IN
    IF ~verifying_key.ok
    THEN Outcome(ProgramError_from("SignatureInvalid"), done \o <<"key">>, <<>>)
    ELSE
    LET signature == Signature_from_bytes(ins.ed25519_signature) IN
    IF ~signature.ok
    THEN Outcome(ProgramError_from("SignatureInvalid"),
                 done \o <<"key", "signature">>, <<>>)
    ELSE
    IF verify_strict(verifying_key, SignedMessage(ins), signature)
    THEN Outcome(Ok, done \o <<"key", "signature", "verify">>, <<>>)
    ELSE Outcome(ProgramError_from("SignatureInvalid"),
                 done \o <<"key", "signature", "verify">>, <<>>)

\* Faulty variant of verify_commitment: the Merkle proof is checked before
\* the aggregate.
verify_commitment_merkle_first(ins) ==
    LET leaf_root ==
            compute_merkle_root(ins.credential_leaf, ins.merkle_proof, ins.index)
    IN
    IF leaf_root # ins.commitment.credential_root
    THEN Outcome(ProgramError_from("InvalidMerkleProof"),
                 <<"merkle">>, <<"invalid merkle proof">>)
    ELSE
    LET recomputed == recompute_aggregate(ins.commitment) IN
    IF recomputed # ins.commitment.aggregate_commitment
    THEN Outcome(ProgramError_from("AggregateMismatch"),
                 <<"merkle", "aggregate">>, <<"aggregate mismatch">>)
    ELSE SignatureChecks(ins, <<"merkle", "aggregate">>)

\* Faulty variant of verify_commitment: a wrong root is logged and the
\* function goes on to the signature.
verify_commitment_merkle_ignored(ins) ==
    LET recomputed == recompute_aggregate(ins.commitment) IN
    IF recomputed # ins.commitment.aggregate_commitment
    THEN Outcome(ProgramError_from("AggregateMismatch"),
                 <<"aggregate">>, <<"aggregate mismatch">>)
    ELSE SignatureChecks(ins, <<"aggregate", "merkle">>)

verify_commitment(ins) ==
    LET recomputed == recompute_aggregate(ins.commitment) IN
    IF recomputed # ins.commitment.aggregate_commitment
    THEN Outcome(ProgramError_from("AggregateMismatch"),
                 <<"aggregate">>, <<"aggregate mismatch">>)
    ELSE
    LET leaf_root ==
            compute_merkle_root(ins.credential_leaf, ins.merkle_proof, ins.index)
    IN
    IF leaf_root # ins.commitment.credential_root
    THEN Outcome(ProgramError_from("InvalidMerkleProof"),
                 <<"aggregate", "merkle">>, <<"invalid merkle proof">>)
    ELSE SignatureChecks(ins, <<"aggregate", "merkle">>)

----------------------------------------------------------------------------
(* VerifyInstruction on the wire (Borsh): the fixed-size fields in          *)
(* declaration order, the proof as a length prefix followed by its          *)
(* elements.  One word per field; a word holds exactly the field's bytes.   *)

CommitmentTuple(did_hash, credential_root, zk_commitment, aggregate_commitment) ==
    [did_hash |-> did_hash, credential_root |-> credential_root,
     zk_commitment |-> zk_commitment,
     aggregate_commitment |-> aggregate_commitment]

VerifyInstruction(commitment, credential_leaf, idx, merkle_proof, pk, sig) ==
    [commitment |-> commitment, credential_leaf |-> credential_leaf,
     index |-> idx, merkle_proof |-> merkle_proof,
     ed25519_public_key |-> pk, ed25519_signature |-> sig]

HeaderWords == 7

TrailerWords == 2

BorshSerialize(ins) ==
    <<ins.commitment.did_hash, ins.commitment.credential_root,
      ins.commitment.zk_commitment, ins.commitment.aggregate_commitment,
      ins.credential_leaf, ins.index, Len(ins.merkle_proof)>>
    \o ins.merkle_proof
    \o <<ins.ed25519_public_key, ins.ed25519_signature>>

\* try_from_slice: fails when the bytes end before the value does, and when
\* bytes are left over after it.
try_from_slice(bytes) ==
    IF Len(bytes) < HeaderWords
    THEN [ok |-> FALSE, value |-> <<>>]
    ELSE
    LET n == bytes[HeaderWords] IN
    IF Len(bytes) # HeaderWords + n + TrailerWords
    THEN [ok |-> FALSE, value |-> <<>>]
    ELSE [ok |-> TRUE,
          value |->
            VerifyInstruction(
                CommitmentTuple(bytes[1], bytes[2], bytes[3], bytes[4]),
                bytes[5], bytes[6],
                SubSeq(bytes, HeaderWords + 1, HeaderWords + n),
                bytes[HeaderWords + n + 1], bytes[HeaderWords + n + 2])]

----------------------------------------------------------------------------
(* The instructions a client can submit. *)

Atoms == {Raw(n) : n \in 0..(NAtoms - 1)}

H2(a, b) == Keccak256_finalize(<<a, b>>)

H3(a, b, c) == Keccak256_finalize(<<a, b, c>>)

SeqsUpTo(S, n) == UNION {[1..k -> S] : k \in 0..n}

\* The nodes of the trees of depth at most 1 over the atoms.
Nodes == Atoms \cup {H2(a, b) : a \in Atoms, b \in Atoms}

\* Credential roots tried with leaf l: l itself (the one-leaf tree), the
\* roots of the two-leaf trees that hold l, and a value that is neither.
CredentialRootsFor(l) ==
    {Raw(0), l} \cup {H2(l, s) : s \in Atoms} \cup {H2(s, l) : s \in Atoms}

ZkValues == {Raw(0)}

\* The aggregate of the tuple, the aggregate of the tuple with did_hash and
\* credential_root exchanged, and a value that is no aggregate at all.
AggregateCandidates(did, cred, zk) == {H3(did, cred, zk), H3(cred, did, zk), Raw(0)}

OtherMessage == Raw(1)

PublicKeyCandidates ==
    {VerifyingKey_of(k) : k \in Keys}
        \cup {KeyBytes("weak", 0), KeyBytes("offcurve", 0)}

SignatureCandidates(agg) ==
    {SigningKey_sign(k, agg) : k \in Keys}
        \cup {SigningKey_sign(1, OtherMessage),
              SigBytes("smallR", 0, agg), SigBytes("highbits", 0, agg)}

Framings == {"exact", "truncated", "trailing", "long_prefix"}

\* Whether the bytes decode depends on their number alone, not on what the
\* key and signature words hold: damaged frames are drawn for one honest
\* key and signature.
FramingsFor(pk, sig, agg) ==
    IF pk = VerifyingKey_of(1) /\ sig = SigningKey_sign(1, agg)
    THEN Framings
    ELSE {"exact"}

Frame(bytes, framing) ==
    CASE framing = "exact" -> bytes
      [] framing = "truncated" -> SubSeq(bytes, 1, Len(bytes) - 1)
      [] framing = "trailing" -> Append(bytes, Raw(0))
      [] framing = "long_prefix" ->
            [bytes EXCEPT ![HeaderWords] = bytes[HeaderWords] + 1]

----------------------------------------------------------------------------
(* process_instruction *)

Init ==
    /\ pc = "entry"
    /\ \E did \in Atoms, zk \in ZkValues, l \in Atoms,
          p \in SeqsUpTo(Atoms, MaxProofLen), i \in 0..MaxIndex :
         \E cred \in CredentialRootsFor(l) :
         \E agg \in AggregateCandidates(did, cred, zk) :
           \E pk \in PublicKeyCandidates, sig \in SignatureCandidates(agg) :
             \E framing \in FramingsFor(pk, sig, agg) :
             data = Frame(BorshSerialize(
                        VerifyInstruction(CommitmentTuple(did, cred, zk, agg),
                                          l, i, p, pk, sig)), framing)
    /\ instruction = <<>>
    /\ result = NoResult
    /\ steps = <<>>
    /\ logs = <<>>
    /\ mpc = "off"
    /\ leaves = <<>>
    /\ leaf = <<>>
    /\ proof = <<>>
    /\ index = 0
    /\ root = <<>>

\* lines 78-79: decode, or return DeserializeFailed.
Deserialize ==
    /\ pc = "entry"
    /\ LET decoded == try_from_slice(data) IN
       IF decoded.ok
       THEN /\ instruction' = decoded.value
            /\ pc' = "decoded"
            /\ UNCHANGED result
       ELSE /\ result' = ProgramError_from("DeserializeFailed")
            /\ pc' = "exit"
            /\ UNCHANGED instruction
    /\ UNCHANGED <<data, steps, logs, merkleVars>>

\* lines 81-82: verify_commitment(&instruction)?; Ok(())
Verify ==
    /\ pc = "decoded"
    /\ LET out == verify_commitment(instruction) IN
       /\ result' = out.ret
       /\ steps' = out.steps
       /\ logs' = out.logs
    /\ pc' = "exit"
    /\ UNCHANGED <<data, instruction, merkleVars>>

Next == Deserialize \/ Verify

Spec == Init /\ [][Next]_vars

----------------------------------------------------------------------------
(* A caller of compute_merkle_root: it either builds a complete binary     *)
(* tree bottom-up over its leaves and extracts the sibling path of one     *)
(* position, or passes arguments of its own choosing.                      *)

Pow2(n) == 2 ^ n

NextLevel(level) ==
    [k \in 1..(Len(level) \div 2) |-> H2(level[2 * k - 1], level[2 * k])]

RECURSIVE TreeRoot(_)
TreeRoot(level) ==
    IF Len(level) = 1 THEN level[1] ELSE TreeRoot(NextLevel(level))

\* The sibling of position i (0-based) is its neighbour in the pair it
\* belongs to: i + 1 for the left member, i - 1 for the right one.
SiblingOf(i) == IF i % 2 = 0 THEN i + 1 ELSE i - 1

RECURSIVE SiblingPath(_, _)
SiblingPath(level, i) ==
    IF Len(level) = 1
    THEN <<>>
    ELSE <<level[SiblingOf(i) + 1]>> \o SiblingPath(NextLevel(level), i \div 2)

Trees == UNION {[1..Pow2(d) -> Atoms] : d \in 0..MaxDepth}

Siblings == Nodes

MerkleIndexes == 0..(2 * Pow2(MaxDepth) - 1)

MerkleInit ==
    /\ mpc = "start"
    /\ leaves \in Trees \cup {<<>>}
    /\ leaf = <<>>
    /\ proof = <<>>
    /\ index = 0
    /\ root = <<>>
    /\ pc = "off"
    /\ data = <<>>
    /\ instruction = <<>>
    /\ result = NoResult
    /\ steps = <<>>
    /\ logs = <<>>

ExtractPath ==
    /\ mpc = "start"
    /\ leaves # <<>>
    /\ \E i \in 0..(Len(leaves) - 1) :
         /\ leaf' = leaves[i + 1]
         /\ proof' = SiblingPath(leaves, i)
         /\ index' = i
    /\ mpc' = "ready"
    /\ UNCHANGED <<leaves, root, pipelineVars>>

FreeArguments ==
    /\ mpc = "start"
    /\ leaves = <<>>
    /\ leaf' \in Atoms
    /\ proof' \in SeqsUpTo(Siblings, MaxDepth)
    /\ index' \in MerkleIndexes
    /\ mpc' = "ready"
    /\ UNCHANGED <<leaves, root, pipelineVars>>

CallComputeMerkleRoot ==
    /\ mpc = "ready"
    /\ root' = compute_merkle_root(leaf, proof, index)
    /\ mpc' = "called"
    /\ UNCHANGED <<leaves, leaf, proof, index, pipelineVars>>

MerkleNext == ExtractPath \/ FreeArguments \/ CallComputeMerkleRoot

MerkleSpec == MerkleInit /\ [][MerkleNext]_vars

----------------------------------------------------------------------------
(* Vocabulary of the properties. *)

Returned == pc = "exit" /\ steps # <<>>

Err(kind) == [tag |-> "Custom", code |-> Discriminant(kind)]

AggregateHolds(ins) ==
    recompute_aggregate(ins.commitment) = ins.commitment.aggregate_commitment

MerkleHolds(ins) ==
    compute_merkle_root(ins.credential_leaf, ins.merkle_proof, ins.index)
        = ins.commitment.credential_root

KeyWellFormed(ins) == ins.ed25519_public_key.enc # "offcurve"

SignatureWellFormed(ins) == ins.ed25519_signature.enc # "highbits"

\* A strict Ed25519 signature by the key over the message: the key is a
\* point that is not of small order and the signature was made with its
\* signing key over exactly this message.
StrictlyValid(key_bytes, sig_bytes, message) ==
    /\ key_bytes.enc = "point"
    /\ sig_bytes.enc = "signed"
    /\ sig_bytes.key = key_bytes.key
    /\ sig_bytes.msg = message

SignatureHolds(ins) ==
    /\ KeyWellFormed(ins)
    /\ SignatureWellFormed(ins)
    /\ StrictlyValid(ins.ed25519_public_key, ins.ed25519_signature,
                     ins.commitment.aggregate_commitment)

\* C1: verify_commitment returns success exactly when the aggregate, the
\* Merkle root and the strict signature all check; otherwise it returns one
\* of AggregateMismatch, InvalidMerkleProof, SignatureInvalid.
C1_SuccessIffAllThree ==
    Returned =>
        /\ result = Ok <=> /\ AggregateHolds(instruction)
                           /\ MerkleHolds(instruction)
                           /\ SignatureHolds(instruction)
        /\ result # Ok =>
             result \in {Err("AggregateMismatch"), Err("InvalidMerkleProof"),
                         Err("SignatureInvalid")}

C1_Witness ==
    /\ Returned
    /\ result = Ok
    /\ instruction.merkle_proof # <<>>

\* C2: a wrong stored aggregate fails with AggregateMismatch and neither the
\* Merkle step nor the signature step is reached, whatever the other fields.
C2_AggregateFirst ==
    (Returned /\ ~AggregateHolds(instruction)) =>
        /\ result = Err("AggregateMismatch")
        /\ steps = <<"aggregate">>

C2_Witness ==
    /\ Returned
    /\ ~AggregateHolds(instruction)
    /\ ~MerkleHolds(instruction)
    /\ ~KeyWellFormed(instruction)
    /\ ~SignatureWellFormed(instruction)
    /\ result = Err("AggregateMismatch")

\* The 2-leaf scenario with the sibling replaced: leaf L0 at index 0, root
\* keccak256(L0 || L1), proof [s] with s # L1.
TwoLeafWrongSibling(ins) ==
    /\ ins.index = 0
    /\ Len(ins.merkle_proof) = 1
    /\ \E L1 \in Atoms :
         /\ ins.commitment.credential_root = H2(ins.credential_leaf, L1)
         /\ ins.merkle_proof[1] # L1

\* C3: with the aggregate right and the reconstructed root wrong the result
\* is InvalidMerkleProof whatever the key and signature; the 2-leaf scenario
\* with a different sibling is such a case.
C3_WrongRootRejected ==
    (Returned /\ AggregateHolds(instruction)) =>
        /\ ~MerkleHolds(instruction) => result = Err("InvalidMerkleProof")
        /\ TwoLeafWrongSibling(instruction) => result = Err("InvalidMerkleProof")

C3_Witness ==
    /\ Returned
    /\ AggregateHolds(instruction)
    /\ TwoLeafWrongSibling(instruction)
    /\ SignatureHolds(instruction)
    /\ result = Err("InvalidMerkleProof")

\* C4: with the aggregate and the root right, a key that does not parse, a
\* signature that does not parse and a well-formed signature that does not
\* strictly verify over aggregate_commitment all give SignatureInvalid, and
\* the signature sign_commitment makes with the matching key passes.
C4_SignatureOutcomes ==
    (Returned /\ AggregateHolds(instruction) /\ MerkleHolds(instruction)) =>
        /\ ~KeyWellFormed(instruction) => result = Err("SignatureInvalid")
        /\ ~SignatureWellFormed(instruction) => result = Err("SignatureInvalid")
        /\ ~StrictlyValid(instruction.ed25519_public_key,
                          instruction.ed25519_signature,
                          instruction.commitment.aggregate_commitment)
             => result = Err("SignatureInvalid")
        /\ (\E k \in Keys :
              /\ instruction.ed25519_public_key = VerifyingKey_of(k)
              /\ instruction.ed25519_signature
                     = sign_commitment(instruction.commitment, k))
             => result = Ok

C4_Witness ==
    /\ Returned
    /\ AggregateHolds(instruction)
    /\ MerkleHolds(instruction)
    /\ instruction.ed25519_public_key = VerifyingKey_of(1)
    /\ instruction.ed25519_signature = SigningKey_sign(1, OtherMessage)
    /\ result = Err("SignatureInvalid")

----------------------------------------------------------------------------
(* compute_merkle_root *)

\* The fold of the first k siblings, step by step: the concatenation order
\* at step j (0-based) is decided by bit j of the index passed in.
Bit(i, j) == (i \div (2 ^ j)) % 2

RECURSIVE FoldByBits(_, _, _, _)
FoldByBits(l, p, i, k) ==
    IF k = 0
    THEN l
    ELSE LET before == FoldByBits(l, p, i, k - 1) IN
         IF Bit(i, k - 1) = 0 THEN H2(before, p[k]) ELSE H2(p[k], before)

\* A well-formed hash term: reading it left to right, one term is complete
\* exactly at its last element.
RECURSIVE Pending(_, _)
Pending(h, k) ==
    IF k = 0
    THEN 1
    ELSE Pending(h, k - 1) - 1 + (IF h[k] < 0 THEN 0 - h[k] ELSE 0)

IsHash(h) ==
    /\ Len(h) >= 1
    /\ Pending(h, Len(h)) = 0
    /\ \A k \in 0..(Len(h) - 1) : Pending(h, k) > 0

\* C5: compute_merkle_root is the fold of the proof in its order from the
\* leaf, the order at step k decided by bit k of the original index, and it
\* always returns a hash.
C5_FoldByIndexBits ==
    mpc = "called" =>
        /\ root = FoldByBits(leaf, proof, index, Len(proof))
        /\ IsHash(root)

C5_Witness ==
    /\ mpc = "called"
    /\ Len(proof) = 2
    /\ Bit(index, 0) = 0
    /\ Bit(index, 1) = 1
    /\ root = H2(proof[2], H2(leaf, proof[1]))

\* C6: for a complete binary tree built bottom-up and any position i, the
\* root computed from leaf i, its sibling path and i is the tree's root.
C6_MerkleRoundTrip ==
    (mpc = "called" /\ leaves # <<>>) => root = TreeRoot(leaves)

C6_Witness ==
    /\ mpc = "called"
    /\ Len(leaves) = 4
    /\ index = 2
    /\ root = TreeRoot(leaves)
    /\ leaves[1] # leaves[3]

\* C7: with an empty proof compute_merkle_root returns the leaf for every
\* index, and verify_commitment passes the Merkle step exactly when
\* credential_leaf equals credential_root.
C7_EmptyProof ==
    (Returned /\ instruction.merkle_proof = <<>>) =>
        /\ compute_merkle_root(instruction.credential_leaf, <<>>,
                               instruction.index) = instruction.credential_leaf
        /\ AggregateHolds(instruction) =>
             (result # Err("InvalidMerkleProof")
                <=> instruction.credential_leaf
                        = instruction.commitment.credential_root)

C7_Witness ==
    /\ Returned
    /\ instruction.merkle_proof = <<>>
    /\ instruction.index = MaxIndex
    /\ instruction.credential_leaf = instruction.commitment.credential_root
    /\ result = Ok

\* C8: exchanging did_hash and credential_root, when they differ, changes
\* recompute_aggregate, and the stored aggregate_commitment does not enter it.
C8_OrderSensitive ==
    pc = "decoded" =>
        LET c == instruction.commitment
            swapped == [c EXCEPT !.did_hash = c.credential_root,
                                 !.credential_root = c.did_hash]
        IN  /\ c.did_hash # c.credential_root
                 => recompute_aggregate(swapped) # recompute_aggregate(c)
            /\ \A a \in AggregateCandidates(c.did_hash, c.credential_root,
                                           c.zk_commitment) :
                 recompute_aggregate([c EXCEPT !.aggregate_commitment = a])
                     = recompute_aggregate(c)

C8_Witness ==
    /\ pc = "decoded"
    /\ instruction.commitment.did_hash # instruction.commitment.credential_root
    /\ instruction.commitment.aggregate_commitment
           = H3(instruction.commitment.credential_root,
                instruction.commitment.did_hash,
                instruction.commitment.zk_commitment)
    /\ ~AggregateHolds(instruction)

\* C9: DeserializeFailed is returned exactly when the bytes do not decode,
\* before any check runs; the four kinds have pairwise distinct codes, and
\* verify_commitment never returns the DeserializeFailed code.
C9_DeserializeDistinct ==
    /\ pc = "exit" =>
         /\ result = Err("DeserializeFailed") <=> ~try_from_slice(data).ok
         /\ result = Err("DeserializeFailed") =>
              /\ steps = <<>>
              /\ logs = <<>>
              /\ \A i, j \in 1..Len(DidCommitmentError) :
                   i # j => ProgramError_from(DidCommitmentError[i])
                                # ProgramError_from(DidCommitmentError[j])
         /\ steps # <<>> => result # Err("DeserializeFailed")
    /\ pc = "decoded" => BorshSerialize(instruction) = data

C9_Witness ==
    /\ pc = "exit"
    /\ result = Err("DeserializeFailed")
    /\ steps = <<>>
    /\ Len(data) > HeaderWords + TrailerWords

\* A request around the arguments of compute_merkle_root: its commitment
\* carries `cred` as credential root, the matching aggregate, and the
\* signature of key 1 over it.
RequestAround(l, p, i, cred) ==
    LET c == CommitmentTuple(Raw(0), cred, Raw(0), H3(Raw(0), cred, Raw(0)))
    IN  VerifyInstruction(c, l, i, p, VerifyingKey_of(1), sign_commitment(c, 1))

\* C10: the root depends only on the lowest len(proof) bits of index, so a
\* request that verifies with index i verifies with every index that agrees
\* with i on those bits, indices at or beyond 2^len(proof) included.
C10_LowBitsOnly ==
    mpc = "called" =>
        \A j \in MerkleIndexes :
            j % (2 ^ Len(proof)) = index % (2 ^ Len(proof)) =>
                /\ compute_merkle_root(leaf, proof, j) = root
                /\ verify_commitment(RequestAround(leaf, proof, index, root)).ret = Ok
                /\ verify_commitment(RequestAround(leaf, proof, j, root)).ret = Ok

C10_Witness ==
    /\ mpc = "called"
    /\ Len(proof) = 2
    /\ index >= 2 ^ Len(proof)
    /\ index % 2 = 1
    /\ verify_commitment(RequestAround(leaf, proof, index, root)).ret = Ok

====
